---- MODULE Spec2Model ----
(***************************************************************************)
(* A model of DataProcessor (src/data_processor.py): the framing, STFT,   *)
(* log-spectrogram, mel filterbank and mel projection operations.         *)
(*                                                                         *)
(* Numbers.  Samples are real-valued (float64) arrays holding integer     *)
(* values, as wav data cast by the `spectrogram` property.  A signal is    *)
(* the record [num, den]: sample i is num[i]/den, kept in lowest terms, so *)
(* that subtracting the mean is exact.  The Hamming window and the DFT    *)
(* twiddle factors are fixed-point numbers in hundredths (exact for sizes *)
(* 2 and 4, rounded for size 16).  A log-spectrogram value is kept        *)
(* symbolically (see Log10).                                               *)
(***************************************************************************)
EXTENDS Integers, Sequences, FiniteSets, TLC

VARIABLES
    cfg,     \* the DataProcessor instance attributes set by __init__
    data,    \* the caller's signal array (the object the caller passes in)
    call,    \* the operation called, with its arguments; op = "none" before
    ret,     \* what the call returned or raised
    before   \* the caller's array as it was when the call was made

vars == <<cfg, data, call, ret, before>>

-----------------------------------------------------------------------------
(* Bounds of the checked inputs *)

MaxAmp == 1      \* samples of the enumerated signals are in -1..MaxAmp
MaxLen == 3      \* the enumerated signals have 0..MaxLen samples
MaxStep == 3     \* window_step / step arguments are in 0..MaxStep

-----------------------------------------------------------------------------
(* Arithmetic helpers *)

Abs(x) == IF x < 0 THEN -x ELSE x

Min(a, b) == IF a < b THEN a ELSE b

Max(a, b) == IF a < b THEN b ELSE a

RECURSIVE Gcd(_, _)
Gcd(a, b) == IF b = 0 THEN Abs(a) ELSE Gcd(b, a % b)

RECURSIVE SeqSum(_)
SeqSum(s) == IF s = <<>> THEN 0 ELSE Head(s) + SeqSum(Tail(s))

RECURSIVE SeqGcd(_)
SeqGcd(s) == IF s = <<>> THEN 0 ELSE Gcd(Head(s), SeqGcd(Tail(s)))

RECURSIVE Pow(_, _)
Pow(b, e) == IF e = 0 THEN 1 ELSE b * Pow(b, e - 1)

Zeros(n) == [i \in 1..n |-> 0]

\* A signal num/den in lowest terms with den > 0.
Reduce(num, den) ==
    LET g == Gcd(SeqGcd(num), den)
    IN  [num |-> [i \in 1..Len(num) |-> num[i] \div g], den |-> den \div g]

Signal(s) == [num |-> s, den |-> 1]

\* a[start:stop] for 0 <= start, as Python clips a slice to the array.
PySlice(a, start, stop) ==
    IF start >= Min(stop, Len(a)) THEN <<>> ELSE SubSeq(a, start + 1, Min(stop, Len(a)))

-----------------------------------------------------------------------------
(* __init__ *)

\* Lines 40-51, for the attributes the modelled methods read.
Config(fft_size, spec_thresh, n_freq_components, shorten_factor, start_freq, end_freq, samplerate) ==
    [fft_size          |-> fft_size,
     step_size         |-> fft_size \div 16,
     spec_thresh       |-> spec_thresh,
     n_freq_components |-> n_freq_components,
     shorten_factor    |-> shorten_factor,
     start_freq        |-> start_freq,
     end_freq          |-> end_freq,
     samplerate        |-> samplerate]

-----------------------------------------------------------------------------
(* overlap *)

Error(e) == [kind |-> "error", err |-> e]

\* The parity test inverted.
OddSizeInverted(window_size) == window_size % 2 = 0

\* Line 153: the parity test of the window size.
OddSize(window_size) == window_size % 2 # 0

\* Lines 156-157: the zeros appended to the tail.
PadCount(n, window_size) == window_size - (n % window_size)

\* A window too many: the count of window starts 0, step, ... <= valid.
WindowCountInclusive(padded_len, ws, ss) == (padded_len - ws) \div ss + 1

\* Lines 163-164: the number of windows of the padded signal.
WindowCount(padded_len, ws, ss) == (padded_len - ws) \div ss

\* Lines 169-171: window i (from 0) of the padded signal.
Window(a, i, ws, ss) == PySlice(a, i * ss, i * ss + ws)

\* overlap(X, window_size, window_step) for window_size >= 1, window_step >= 0.
\* X is the sequence of sample numerators.
Overlap(X, window_size, window_step) ==
    IF OddSize(window_size) THEN Error("ValueError")
    ELSE LET a == X \o Zeros(PadCount(Len(X), window_size))
         IN  IF window_step = 0 THEN Error("ZeroDivisionError")
             ELSE LET nw == WindowCount(Len(a), window_size, window_step)
                  IN  [kind   |-> "ok",
                       padded |-> a,
                       out    |-> [i \in 1..nw |->
                                     Window(a, i - 1, window_size, window_step)]]

-----------------------------------------------------------------------------
(* stft *)

\* Line 193: X -= X.mean(), on the caller's array.  The mean of an empty
\* array is nan and the subtraction then changes nothing.
MeanNormalize(X) ==
    IF Len(X.num) = 0 THEN X
    ELSE LET n == Len(X.num)
             s == SeqSum(X.num)
         IN  Reduce([i \in 1..n |-> n * X.num[i] - s], n * X.den)

\* Line 198: the Hamming window 0.54 - 0.46 cos(2 pi n / (size - 1)), in
\* hundredths, tabulated for the sizes 2, 3, 4 and 16.
Hamming(size) ==
    CASE size = 2  -> <<8, 8>>
      [] size = 3  -> <<8, 100, 8>>
      [] size = 4  -> <<8, 77, 77, 8>>
      [] size = 16 -> <<8, 12, 23, 40, 59, 77, 91, 99, 99, 91, 77, 59, 40, 23, 12, 8>>

\* cos(2 pi p / size) and sin(2 pi p / size), in hundredths, p in 0..size-1.
CosTable(size) ==
    CASE size = 2  -> <<100, -100>>
      [] size = 3  -> <<100, -50, -50>>
      [] size = 4  -> <<100, 0, -100, 0>>
      [] size = 16 -> <<100, 92, 71, 38, 0, -38, -71, -92,
                        -100, -92, -71, -38, 0, 38, 71, 92>>

SinTable(size) ==
    CASE size = 2  -> <<0, 0>>
      [] size = 3  -> <<0, 87, -87>>
      [] size = 4  -> <<0, 100, 0, -100>>
      [] size = 16 -> <<0, 38, 71, 92, 100, 92, 71, 38,
                        0, -38, -71, -92, -100, -92, -71, -38>>

RECURSIVE DftSum(_, _, _, _)
\* sum over n < upto of frame[n] * table[(k n) mod size]
DftSum(frame, table, k, upto) ==
    IF upto = 0 THEN 0
    ELSE frame[upto] * table[((k * (upto - 1)) % Len(frame)) + 1]
         + DftSum(frame, table, k, upto - 1)

\* x / 100 rounded towards zero, except that a nonzero x stays nonzero (floating
\* point does not flush a small value to zero).
Unscale(x) ==
    IF x = 0 THEN 0
    ELSE IF x < 0 THEN -Max((-x) \div 100, 1) ELSE Max(x \div 100, 1)

\* Bin k of the discrete Fourier transform of a windowed frame: <<re, im>>.
\* The twiddle scale of 100 is divided out (exactly, for sizes 2 and 4).
DftBin(frame, k) ==
    LET size == Len(frame)
        re == DftSum(frame, CosTable(size), k, size)
        im == -DftSum(frame, SinTable(size), k, size)
    IN  <<Unscale(re), Unscale(im)>>

\* The one-sided cut taken as fftsize/2 + 1, the width of a real transform.
CutWithNyquist(fftsize, real, compute_onesided) ==
    IF compute_onesided THEN [none |-> FALSE, at |-> fftsize \div 2 + 1]
    ELSE IF real THEN [none |-> FALSE, at |-> -1]
    ELSE [none |-> TRUE, at |-> 0]

\* Lines 184-191: the column cut; none = TRUE is Python's None, which keeps
\* every column.
Cut(fftsize, real, compute_onesided) ==
    IF compute_onesided THEN [none |-> FALSE, at |-> fftsize \div 2]
    ELSE IF real THEN [none |-> FALSE, at |-> -1]
    ELSE [none |-> TRUE, at |-> 0]

\* Columns of np.fft.rfft (real) or np.fft.fft of rows of length n.
FftWidth(n, real) == IF real THEN n \div 2 + 1 ELSE n

\* Width of row[:cut] for a row of the given width.
CutWidth(width, cut) ==
    IF cut.none THEN width
    ELSE IF cut.at < 0 THEN Max(width + cut.at, 0)
    ELSE Min(cut.at, width)

\* stft(X, fftsize, step, mean_normalize, real, compute_onesided) for the
\* sizes that have tables.  X is a signal record; `array` is the caller's
\* array when the call ends.
Stft(X, fftsize, step, mean_normalize, real, compute_onesided) ==
    LET cut == Cut(fftsize, real, compute_onesided)
        Xn  == IF mean_normalize THEN MeanNormalize(X) ELSE X
        o   == Overlap(Xn.num, fftsize, step)
    IN  IF o.kind = "error" THEN [kind |-> "error", err |-> o.err, array |-> Xn]
        ELSE LET win   == Hamming(fftsize)
                 ncols == CutWidth(FftWidth(fftsize, real), cut)
                 nrows == Len(o.out)
             IN  [kind  |-> "ok",
                  array |-> Xn,
                  nrows |-> nrows,
                  ncols |-> ncols,
                  den   |-> Xn.den,
                  out   |-> [r \in 1..nrows |->
                              LET fr == [n \in 1..fftsize |-> o.out[r][n] * win[n]]
                              IN  [c \in 1..ncols |-> DftBin(fr, c - 1)]]]

-----------------------------------------------------------------------------
(* pretty_spectrogram *)

\* Line 218: np.abs of a complex value, kept as the squared magnitude.
AbsSquared(z) == z[1] * z[1] + z[2] * z[2]

RECURSIVE SeqMax(_)
SeqMax(s) == IF Len(s) = 1 THEN s[1] ELSE Max(Head(s), SeqMax(Tail(s)))

\* specgram.max() of a non-empty matrix.
MatrixMax(m) == SeqMax([r \in 1..Len(m) |-> SeqMax(m[r])])

NaN == [kind |-> "nan"]

\* Line 222: a value divided by the matrix maximum (both squared magnitudes);
\* 0/0 is nan.
VolumeNormalize(a, mx) ==
    IF mx = 0 THEN NaN ELSE [kind |-> "ratio", num |-> a, den |-> mx]

\* Line 223: log10 of a ratio, kept symbolically: [kind |-> "log", num, den]
\* stands for log10(sqrt(num/den)).
Log10(v) ==
    IF v.kind = "nan" THEN NaN
    ELSE IF v.num = 0 THEN [kind |-> "-inf"]
    ELSE [kind |-> "log", num |-> v.num, den |-> v.den]

\* v < -thresh, for thresh >= 0: sqrt(num/den) < 10^-thresh.  A comparison with
\* nan is false.
BelowThresh(v, thresh) ==
    \/ v.kind = "-inf"
    \/ /\ v.kind = "log"
       /\ v.num <= (v.den - 1) \div Pow(100, thresh)

\* Line 225: specgram[specgram < -thresh] = -thresh
Clamp(v, thresh) ==
    IF BelowThresh(v, thresh) THEN [kind |-> "const", value |-> -thresh] ELSE v

\* pretty_spectrogram(data), on the instance attributes c.
PrettySpectrogram(c, X) ==
    LET s == Stft(X, c.fft_size, c.step_size, TRUE, FALSE, TRUE)
    IN  IF s.kind = "error" THEN s
        ELSE IF s.nrows = 0 \/ s.ncols = 0
             THEN [kind |-> "error", err |-> "ValueError", array |-> s.array]
        ELSE LET specgram == [r \in 1..s.nrows |->
                                [k \in 1..s.ncols |-> AbsSquared(s.out[r][k])]]
                 mx == MatrixMax(specgram)
             IN  [kind  |-> "ok",
                  array |-> s.array,
                  nrows |-> s.nrows,
                  ncols |-> s.ncols,
                  max   |-> mx,
                  out   |-> [r \in 1..s.nrows |-> [k \in 1..s.ncols |->
                              Clamp(Log10(VolumeNormalize(specgram[r][k], mx)),
                                    c.spec_thresh)]]]

-----------------------------------------------------------------------------
(* Mel scale and filterbank.  A mel value 2595 log10(1 + hz/700) is kept as  *)
(* the sum 700 + hz it is the logarithm of; frequencies are integers (Hz).   *)

\* Line 115: _hz_to_mel(hz), as the argument 700 + hz of its logarithm.
HzToMel(hz) == [plus700 |-> 700 + hz]

\* Line 256: point k (from 0) of np.linspace(lowmel, highmel, nfilt + 2).  Even
\* spacing in mels is the weighted geometric mean of the 700 + hz values,
\* (700 + low)^((n - k)/n) (700 + high)^(k/n) with n = nfilt + 1.
MelPoint(lowmel, highmel, nfilt, k) ==
    [a |-> lowmel.plus700, b |-> highmel.plus700, k |-> k, n |-> nfilt + 1]

\* floor((nfft + 1) * _mel_to_hz(point) / samplerate) >= b, exactly:
\*   a^(n-k) b^k (nfft+1)^n >= (700 (nfft+1) + b samplerate)^n,
\* with the common factor g of 700, a, b and samplerate divided out.
BinAtLeast(point, nfft, samplerate, b) ==
    LET g == Gcd(Gcd(700, samplerate), Gcd(point.a, point.b))
    IN  Pow(point.a \div g, point.n - point.k) * Pow(point.b \div g, point.k)
          * Pow(nfft + 1, point.n)
        >= Pow((700 \div g) * (nfft + 1) + b * (samplerate \div g), point.n)

\* (nfft + 1) * _mel_to_hz(point) / samplerate is the integer b exactly.
BinExactly(point, nfft, samplerate, b) ==
    LET g == Gcd(Gcd(700, samplerate), Gcd(point.a, point.b))
    IN  Pow(point.a \div g, point.n - point.k) * Pow(point.b \div g, point.k)
          * Pow(nfft + 1, point.n)
        = Pow((700 \div g) * (nfft + 1) + b * (samplerate \div g), point.n)

\* Line 259: the fft bin of a mel point, for frequencies >= 0.  When the exact
\* quotient is a positive integer, the floating-point quotient lies just
\* below it or not, depending on the rounding of log10 and power: round_down
\* chooses.  (Frequency 0 converts exactly.)
Bin(point, nfft, samplerate, round_down) ==
    LET top == ((nfft + 1) * (Max(point.a, point.b) - 700)) \div samplerate
        v   == CHOOSE b \in 0..top :
                 /\ BinAtLeast(point, nfft, samplerate, b)
                 /\ b = top \/ ~BinAtLeast(point, nfft, samplerate, b + 1)
    IN  IF round_down /\ v > 0 /\ BinExactly(point, nfft, samplerate, v)
        THEN v - 1 ELSE v

\* A rational number in lowest terms, d > 0.
Rat(n, d) == LET g == Gcd(n, d) IN [num |-> n \div g, den |-> d \div g]

RatAdd(x, y) == Rat(x.num * y.den + y.num * x.den, x.den * y.den)

RECURSIVE RatSum(_)
RatSum(s) == IF s = <<>> THEN Rat(0, 1) ELSE RatAdd(Head(s), RatSum(Tail(s)))

\* Line 261: the number of columns of fbank.
FbankWidth(nfft) == nfft \div 2

\* Lines 263-266: fbank[j, i] after the two loops of filter j (bins from 1:
\* bin[j], bin[j+1], bin[j+2] are the three boundaries of filter j).
FbankEntry(bin, j, i) ==
    IF bin[j] <= i /\ i < bin[j + 1]
    THEN Rat(i - bin[j], bin[j + 1] - bin[j])
    ELSE IF bin[j + 1] <= i /\ i < bin[j + 2]
    THEN Rat(bin[j + 2] - i, bin[j + 2] - bin[j + 1])
    ELSE Rat(0, 1)

\* The column indices the loops of filter j assign.
Assigned(bin, j) == {i \in bin[j]..(bin[j + 2] - 1) :
                        \/ bin[j] <= i /\ i < bin[j + 1]
                        \/ bin[j + 1] <= i /\ i < bin[j + 2]}

\* get_filterbanks(nfilt, nfft, samplerate, lowfreq, highfreq) for nfilt >= 1,
\* nfft >= 1, an even samplerate > 0, lowfreq >= 0; highfreq = 0 stands for
\* None (`highfreq or samplerate/2` reads both alike).  down is the set of
\* points whose bin quotient rounds below an exact integer.
GetFilterbanks(nfilt, nfft, samplerate, lowfreq, highfreq, down) ==
    LET high == IF highfreq = 0 THEN samplerate \div 2 ELSE highfreq
    IN  IF 2 * high > samplerate THEN Error("AssertionError")
        ELSE
        LET lowmel  == HzToMel(lowfreq)
            highmel == HzToMel(high)
            bin     == [k \in 1..(nfilt + 2) |->
                          Bin(MelPoint(lowmel, highmel, nfilt, k - 1), nfft,
                              samplerate, k \in down)]
            width   == FbankWidth(nfft)
        IN  IF \E j \in 1..nfilt : \E i \in Assigned(bin, j) : i >= width
            THEN [kind |-> "error", err |-> "IndexError", bin |-> bin]
            ELSE [kind  |-> "ok",
                  bin   |-> bin,
                  nrows |-> nfilt,
                  ncols |-> width,
                  fbank |-> [j \in 1..nfilt |->
                               [i \in 1..width |-> FbankEntry(bin, j, i - 1)]]]

\* x / y for a rational x and a rational y >= 0, as floating point divides:
\* 0/0 is nan and x/0 is infinite.
RatDiv(x, y) ==
    IF y.num = 0
    THEN IF x.num = 0 THEN NaN ELSE [kind |-> "inf"]
    ELSE [kind |-> "rat", value |-> Rat(x.num * y.den, x.den * y.num)]

\* create_mel_filter(), on the instance attributes c.
CreateMelFilter(c, down) ==
    LET inv == GetFilterbanks(c.n_freq_components, c.fft_size, c.samplerate,
                              c.start_freq, c.end_freq, down)
    IN  IF inv.kind = "error" THEN inv
        ELSE LET sums == [j \in 1..inv.nrows |-> RatSum(inv.fbank[j])]
             IN  [kind |-> "ok",
                  bin  |-> inv.bin,
                  sums |-> sums,
                  mel_filter |-> [i \in 1..inv.ncols |-> [j \in 1..inv.nrows |->
                                    RatDiv(inv.fbank[j][i], sums[j])]],
                  mel_inversion_filter |-> inv.fbank]

-----------------------------------------------------------------------------
(* make_mel.  Only the shapes are modelled: the values of the spline       *)
(* resampling are not.                                                       *)

\* Rounding a half up instead of to the even integer.
RoundHalfUp(n, d) == (2 * n + d) \div (2 * d)

\* Python 3 round(n / d) for n >= 0, d > 0: to the nearest integer, a half
\* to the even one.
PyRound(n, d) ==
    LET q == n \div d
        r == n % d
    IN  IF 2 * r < d THEN q
        ELSE IF 2 * r > d THEN q + 1
        ELSE IF q % 2 = 0 THEN q ELSE q + 1

\* Lines 234-235: the shape scipy.ndimage.zoom gives an array of the shape
\* <<rows, cols>> under the zoom [1, 1./shorten_factor].
ZoomShape(shape, shorten_factor) ==
    <<PyRound(shape[1], 1), PyRound(shape[2], shorten_factor)>>

\* Line 236: the width of mel_spec[:, 1:-1].
TrimWidth(width) == Max(width - 2, 0)

\* make_mel(spectrogram, mel_filter, shorten_factor) on the shapes
\* spectrogram: <<n_frames, n_bins>> and mel_filter: <<n_bins, n_mel>>.  Whether
\* zoom returns an array with no columns or fails is left to the library
\* build: empty_ok chooses.
MakeMel(spectrogram, mel_filter, shorten_factor, empty_ok) ==
    IF mel_filter[1] # spectrogram[2] THEN Error("ValueError")
    ELSE LET mel_spec == <<mel_filter[2], spectrogram[1]>>
             zoomed   == ZoomShape(mel_spec, shorten_factor)
         IN  IF zoomed[2] = 0 /\ ~empty_ok THEN Error("RuntimeError")
             ELSE [kind |-> "ok", nrows |-> zoomed[1], ncols |-> TrimWidth(zoomed[2])]

-----------------------------------------------------------------------------
(* The checked inputs *)

Samples == -1..MaxAmp

RECURSIVE SeqsUpTo(_, _)
\* every sequence over S of length 0..n
SeqsUpTo(S, n) ==
    IF n = 0 THEN {<<>>}
    ELSE LET shorter == SeqsUpTo(S, n - 1)
         IN  shorter \cup {Append(s, x) : s \in {t \in shorter : Len(t) = n - 1}, x \in S}

ShortSignals == SeqsUpTo(Samples, MaxLen) \cup {<<1, 2, 3, 4, 5>>}

\* pattern p repeated to n samples
Tile(p, n) == [i \in 1..n |-> p[((i - 1) % Len(p)) + 1]]

LongSignals ==
    {Tile(p, n) : p \in SeqsUpTo(Samples, 2) \ {<<>>}, n \in {5, 16, 17}}
    \cup {Tile(<<1>>, 15) \o <<x>> \o Tile(<<1>>, 2) : x \in Samples}

WindowSizes == 1..4

StftSizes == {2, 3, 4, 16}

\* fft_size 3 is odd, 4 gives step_size 0, 16 gives step_size 1.
FrameConfigs ==
    {Config(f, 1, 2, 1, 0, 1400, 2800) : f \in {3, 4, 16}}

SpectrogramConfigs ==
    {Config(f, t, 2, 1, 0, 1400, 2800) : f \in {15, 16}, t \in 0..2}

-----------------------------------------------------------------------------
(* The calls *)

NoCall == [op |-> "none"]

NoRet == [kind |-> "none"]

CallOverlap ==
    /\ call.op = "none"
    /\ \E ws \in WindowSizes, ss \in 0..MaxStep :
        /\ call' = [op |-> "overlap", window_size |-> ws, window_step |-> ss]
        /\ ret' = Overlap(data.num, ws, ss)
    /\ before' = data
    /\ UNCHANGED <<cfg, data>>

CallStft ==
    /\ call.op = "none"
    /\ \E fftsize \in StftSizes, step \in 0..MaxStep,
          mean_normalize \in BOOLEAN, real \in BOOLEAN, onesided \in BOOLEAN :
        LET r == Stft(data, fftsize, step, mean_normalize, real, onesided)
        IN  /\ call' = [op |-> "stft", fftsize |-> fftsize, step |-> step,
                        mean_normalize |-> mean_normalize, real |-> real,
                        compute_onesided |-> onesided]
            /\ ret' = r
            /\ data' = r.array
    /\ before' = data
    /\ UNCHANGED cfg

CallPrettySpectrogram ==
    /\ call.op = "none"
    /\ LET r == PrettySpectrogram(cfg, data)
       IN  /\ call' = [op |-> "pretty_spectrogram"]
           /\ ret' = r
           /\ data' = r.array
    /\ before' = data
    /\ UNCHANGED cfg

InitFrames ==
    /\ cfg \in FrameConfigs
    /\ data \in {Signal(s) : s \in ShortSignals}
    /\ call = NoCall
    /\ ret = NoRet
    /\ before = data

InitSpectrogram ==
    /\ cfg \in SpectrogramConfigs
    /\ data \in {Signal(s) : s \in LongSignals}
    /\ call = NoCall
    /\ ret = NoRet
    /\ before = data

Next == CallOverlap \/ CallStft \/ CallPrettySpectrogram

Spec == InitFrames /\ [][Next]_vars

SpecSpectrogram == InitSpectrogram /\ [][CallPrettySpectrogram]_vars

-----------------------------------------------------------------------------
(* Mel inputs: frequencies are multiples of 700 Hz, sample rates of 1400 Hz *)

FilterCounts == 1..3

MelFftSizes == {1, 4, 5, 8}

SampleRates == {1400, 2800}

LowFrequencies == {0, 700}

HighFrequencies == {0, 700, 1400}   \* 0: highfreq not given

MelConfigs ==
    {Config(f, 1, n, 1, 0, 1400, 2800) : f \in {4, 8}, n \in {1, 3}}

MaxFrames == 6    \* spectrograms passed to make_mel have 1..MaxFrames rows
MaxShorten == 4   \* shorten_factor is in 1..MaxShorten

CallGetFilterbanks ==
    /\ call.op = "none"
    /\ \E nfilt \in FilterCounts, nfft \in MelFftSizes, sr \in SampleRates,
          lo \in LowFrequencies, hi \in HighFrequencies :
       \E down \in SUBSET (1..(nfilt + 2)) :
        /\ call' = [op |-> "get_filterbanks", nfilt |-> nfilt, nfft |-> nfft,
                    samplerate |-> sr, lowfreq |-> lo, highfreq |-> hi]
        /\ ret' = GetFilterbanks(nfilt, nfft, sr, lo, hi, down)
    /\ before' = data
    /\ UNCHANGED <<cfg, data>>

CallCreateMelFilter ==
    /\ call.op = "none"
    /\ \E down \in SUBSET (1..(cfg.n_freq_components + 2)) :
        /\ call' = [op |-> "create_mel_filter"]
        /\ ret' = CreateMelFilter(cfg, down)
    /\ before' = data
    /\ UNCHANGED <<cfg, data>>

CallMakeMel ==
    /\ call.op = "none"
    /\ \E n_frames \in 1..MaxFrames, n_bins \in 1..2, filter_bins \in 1..2,
          n_mel \in 1..2, shorten_factor \in 1..MaxShorten, empty_ok \in BOOLEAN :
        /\ call' = [op |-> "make_mel", spectrogram |-> <<n_frames, n_bins>>,
                    mel_filter |-> <<filter_bins, n_mel>>,
                    shorten_factor |-> shorten_factor]
        /\ ret' = MakeMel(<<n_frames, n_bins>>, <<filter_bins, n_mel>>,
                          shorten_factor, empty_ok)
    /\ before' = data
    /\ UNCHANGED <<cfg, data>>

InitMel ==
    /\ cfg \in MelConfigs
    /\ data = Signal(<<>>)
    /\ call = NoCall
    /\ ret = NoRet
    /\ before = data

NextMel == CallGetFilterbanks \/ CallCreateMelFilter \/ CallMakeMel

SpecMel == InitMel /\ [][NextMel]_vars

-----------------------------------------------------------------------------
(* Properties *)

IsOdd(n) == n % 2 = 1

\* C1: for an even window_size and a window_step > 0, overlap returns
\* floor((P - window_size) / window_step) frames, P the length of X padded
\* with zeros at the tail; frame i is the padded signal's slice
\* [i*step, i*step + size), which ends inside the padded signal; and
\* [1,2,3,4,5] with size 4, step 2 pads to 8 and gives [[1,2,3,4],[3,4,5,0]].
C1_OverlapFrames ==
    (call.op = "overlap" /\ ~IsOdd(call.window_size) /\ call.window_step > 0) =>
        /\ ret.kind = "ok"
        /\ LET X  == before.num
               ws == call.window_size
               ss == call.window_step
               P  == Len(ret.padded)
           IN  /\ P >= Len(X)
               /\ P % ws = 0
               /\ \A i \in 1..P :
                    ret.padded[i] = IF i <= Len(X) THEN X[i] ELSE 0
               /\ Len(ret.out) = (P - ws) \div ss
               /\ \A i \in 1..Len(ret.out) :
                    /\ (i - 1) * ss + ws <= P
                    /\ ret.out[i] = [n \in 1..ws |-> ret.padded[(i - 1) * ss + n]]
               /\ (X = <<1, 2, 3, 4, 5>> /\ ws = 4 /\ ss = 2) =>
                    /\ P = 8
                    /\ ret.out = <<<<1, 2, 3, 4>>, <<3, 4, 5, 0>>>>

\* C1 witness: the example call has returned its two frames.
C1_Witness ==
    /\ call.op = "overlap"
    /\ before.num = <<1, 2, 3, 4, 5>>
    /\ call.window_size = 4
    /\ call.window_step = 2
    /\ ret.kind = "ok"
    /\ Len(ret.out) = 2

\* The value v of a log spectrogram lies in [-thresh, 0].
InLogRange(v, thresh) ==
    \/ /\ v.kind = "log"
       /\ v.num <= v.den
       /\ v.num > (v.den - 1) \div Pow(100, thresh)
    \/ /\ v.kind = "const"
       /\ -thresh <= v.value
       /\ v.value <= 0

\* The value v of a log spectrogram is 0.
IsZeroValue(v) ==
    \/ v.kind = "log" /\ v.num = v.den
    \/ v.kind = "const" /\ v.value = 0

\* C2: for a signal with a non-zero sample, pretty_spectrogram returns a matrix
\* whose values all lie in [-spec_thresh, 0] and whose maximum is exactly 0.
C2_LogRange ==
    (/\ call.op = "pretty_spectrogram"
     /\ ~IsOdd(cfg.fft_size)
     /\ \E i \in 1..Len(before.num) : before.num[i] # 0) =>
        /\ ret.kind = "ok"
        /\ \A r \in 1..ret.nrows : \A k \in 1..ret.ncols :
             InLogRange(ret.out[r][k], cfg.spec_thresh)
        /\ \E r \in 1..ret.nrows : \E k \in 1..ret.ncols :
             IsZeroValue(ret.out[r][k])

\* C3: for nfilt > 0, nfft > 0, samplerate > 0, lowfreq >= 0 and
\* highfreq <= samplerate/2, get_filterbanks returns, with no index error, an
\* nfilt x nfft/2 matrix of entries >= 0 in which every row with strictly
\* increasing bin boundaries has a positive sum.
C3_Filterbank ==
    (/\ call.op = "get_filterbanks"
     /\ 2 * call.highfreq <= call.samplerate) =>
        /\ ret.kind = "ok"
        /\ ret.nrows = call.nfilt
        /\ ret.ncols = call.nfft \div 2
        /\ \A j \in 1..ret.nrows :
             /\ Len(ret.fbank[j]) = ret.ncols
             /\ \A i \in 1..ret.ncols : ret.fbank[j][i].num >= 0
             /\ (ret.bin[j] < ret.bin[j + 1] /\ ret.bin[j + 1] < ret.bin[j + 2]) =>
                    RatSum(ret.fbank[j]).num > 0

\* n / d rounds to w: to the nearest integer, a half to the even one.
RoundsTo(n, d, w) ==
    \/ 2 * Abs(n - w * d) < d
    \/ 2 * Abs(n - w * d) = d /\ w % 2 = 0

\* C4 as stated: make_mel returns n_mel_filters rows and
\* round(n_frames / shorten_factor) - 2 columns.
C4_ColumnsAsStated ==
    (call.op = "make_mel" /\ ret.kind = "ok") =>
        /\ ret.nrows = call.mel_filter[2]
        /\ \E w \in 0..call.spectrogram[1] :
             /\ RoundsTo(call.spectrogram[1], call.shorten_factor, w)
             /\ ret.ncols = w - 2

\* C4, amended: make_mel returns n_mel_filters rows and
\* max(round(n_frames / shorten_factor) - 2, 0) columns, round taking a half to
\* the even integer: a resampled width below 2 leaves no column.
C4_Columns ==
    (call.op = "make_mel" /\ ret.kind = "ok") =>
        /\ ret.nrows = call.mel_filter[2]
        /\ \E w \in 0..call.spectrogram[1] :
             /\ RoundsTo(call.spectrogram[1], call.shorten_factor, w)
             /\ ret.ncols = IF w >= 2 THEN w - 2 ELSE 0

\* C4 witness: 5 frames shortened by 2 round to width 2 and leave no column.
C4_Witness ==
    /\ call.op = "make_mel"
    /\ ret.kind = "ok"
    /\ call.spectrogram[1] = 5
    /\ call.shorten_factor = 2
    /\ call.mel_filter[2] = 2
    /\ ret.nrows = 2
    /\ ret.ncols = 0

\* C5: for an even fftsize, stft returns fftsize/2 columns when
\* compute_onesided, with real or not; else fftsize columns when not real and
\* fftsize/2 when real.
C5_StftColumns ==
    (call.op = "stft" /\ ~IsOdd(call.fftsize) /\ call.step > 0) =>
        /\ ret.kind = "ok"
        /\ ret.ncols = IF call.compute_onesided \/ call.real
                       THEN call.fftsize \div 2 ELSE call.fftsize
        /\ \A r \in 1..ret.nrows : Len(ret.out[r]) = ret.ncols

\* C5 witness: a real, one-sided transform of size 4 has returned frames.
C5_Witness ==
    /\ call.op = "stft"
    /\ call.fftsize = 4
    /\ call.real
    /\ call.compute_onesided
    /\ ret.kind = "ok"
    /\ ret.nrows > 0
    /\ ret.ncols = 2

\* C6: when the magnitude matrix's maximum is 0, pretty_spectrogram returns an
\* all-zero or empty spectrogram or raises; it returns no NaN or Inf.
C6_SilentSignal ==
    (call.op = "pretty_spectrogram" /\ ret.kind = "ok" /\ ret.max = 0) =>
        \A r \in 1..ret.nrows : \A k \in 1..ret.ncols :
            IsZeroValue(ret.out[r][k])

\* C7: when two consecutive bin boundaries coincide, create_mel_filter either
\* raises or returns matrices of finite entries, and no filter row of sum 0 is
\* a normalization denominator.
C7_DegenerateFilter ==
    (/\ call.op = "create_mel_filter"
     /\ ret.kind = "ok"
     /\ \E k \in 1..(Len(ret.bin) - 1) : ret.bin[k] = ret.bin[k + 1]) =>
        /\ \A j \in 1..Len(ret.sums) : ret.sums[j].num # 0
        /\ \A i \in 1..Len(ret.mel_filter) : \A j \in 1..Len(ret.mel_filter[i]) :
             ret.mel_filter[i][j].kind = "rat"

\* C8: after a call of overlap, stft or pretty_spectrogram, returned or
\* failed, the caller's array holds the samples it held before.
C8_ArrayUnchanged ==
    (call.op \in {"overlap", "stft", "pretty_spectrogram"}) => data = before

\* C9: for an odd window_size overlap raises its error and returns no frames,
\* whatever the step and the signal; stft and pretty_spectrogram raise the same
\* error for an odd fft size.
C9_OddSizeRaises ==
    /\ (call.op = "overlap" /\ IsOdd(call.window_size)) =>
            ret = Error("ValueError")
    /\ (call.op = "stft" /\ IsOdd(call.fftsize)) =>
            ret.kind = "error" /\ ret.err = "ValueError"
    /\ (call.op = "pretty_spectrogram" /\ IsOdd(cfg.fft_size)) =>
            ret.kind = "error" /\ ret.err = "ValueError"

\* C9 witness: overlap of the empty signal with size 3 and step 0 has raised.
C9_Witness ==
    /\ call.op = "overlap"
    /\ call.window_size = 3
    /\ call.window_step = 0
    /\ before.num = <<>>
    /\ ret.kind = "error"

\* C10: overlap pads to the smallest multiple of window_size that is >= len(X):
\* a signal whose length is a multiple of window_size gets no zeros.
C10_PadsToNextMultiple ==
    (call.op = "overlap" /\ ret.kind = "ok") =>
        LET P == Len(ret.padded)
        IN  /\ P % call.window_size = 0
            /\ P >= Len(before.num)
            /\ P - call.window_size < Len(before.num)

=============================================================================
